---- MODULE Spec2Model ----
(***************************************************************************)
(* Model of the asynchronous same-domain crawler of src/crawl.py:          *)
(* normalize_url and the URL handling it relies on, and AsyncCrawler       *)
(* (add_page_visit, get_html, crawl_page, crawl) run as cooperative        *)
(* asyncio tasks.                                                          *)
(*                                                                         *)
(* A string is a sequence of one-character strings.                        *)
(***************************************************************************)
EXTENDS Integers, Sequences, FiniteSets, TLC

VARIABLES
    site,             \* the web the run crawls: base URL and the pages behind each URL
    max_concurrency,  \* AsyncCrawler.max_concurrency
    max_pages,        \* AsyncCrawler.max_pages
    session,          \* AsyncCrawler.session: "none", "open" or "closed"
    page_data,        \* AsyncCrawler.page_data: normalized url -> page record
    should_stop,      \* AsyncCrawler.should_stop
    all_tasks,        \* AsyncCrawler.all_tasks: the registered child tasks
    sem_value,        \* AsyncCrawler.semaphore: free slots
    units,            \* every crawl_page invocation of the run, in spawn order
    values,           \* per address, what crawl_page's pure helpers compute for it
    result,           \* what crawl() returned: <<>> before, <<page_data>> after
    norm_in,          \* normalize_url under test: the address
    norm_out,         \* normalize_url under test: the keys computed so far
    lock_locked,      \* AsyncCrawler.lock: whether some task holds it
    accessed          \* the accesses to the shared crawl state made by the last step

vars == <<site, max_concurrency, max_pages, session, page_data, should_stop,
          all_tasks, sem_value, units, values, result, norm_in, norm_out,
          lock_locked, accessed>>

crawl_vars == <<site, max_concurrency, max_pages, session, page_data, should_stop,
                all_tasks, sem_value, units, values, result, lock_locked, accessed>>

(***************************************************************************)
(* Strings                                                                 *)
(***************************************************************************)
LowerLetters == {"a", "b", "c", "d", "h", "o", "p", "s", "t"}
UpperLetters == {"A", "H", "P", "T"}
DigitChars == {"8"}

\* str.lower() on one character
ToLower(c) ==
    CASE c = "A" -> "a"
      [] c = "H" -> "h"
      [] c = "P" -> "p"
      [] c = "T" -> "t"
      [] OTHER -> c

\* str.lower()
lower(s) == [i \in 1..Len(s) |-> ToLower(s[i])]

\* str.isalpha() on one character
isalpha(c) == c \in LowerLetters \cup UpperLetters

\* urllib.parse.scheme_chars
scheme_chars == LowerLetters \cup UpperLetters \cup DigitChars \cup {"+", "-", "."}

Take(s, n) == SubSeq(s, 1, IF n < Len(s) THEN n ELSE Len(s))
Drop(s, n) == SubSeq(s, n + 1, Len(s))

\* 1-based str.find: the first position of a character of cs at or after
\* position start, 0 when there is none
find(s, cs, start) ==
    IF \E i \in start..Len(s) : s[i] \in cs
    THEN CHOOSE i \in start..Len(s) :
            s[i] \in cs /\ \A j \in start..(i - 1) : s[j] \notin cs
    ELSE 0

\* str.rstrip(c)
rstrip(s, c) ==
    IF \E i \in 1..Len(s) : s[i] # c
    THEN Take(s, CHOOSE i \in 1..Len(s) :
                    s[i] # c /\ \A j \in (i + 1)..Len(s) : s[j] = c)
    ELSE <<>>

\* str.split(c)
RECURSIVE split(_, _)
split(s, c) ==
    LET i == find(s, {c}, 1)
    IN  IF i = 0 THEN <<s>> ELSE <<Take(s, i - 1)>> \o split(Drop(s, i), c)

\* c.join(parts)
RECURSIVE join(_, _)
join(parts, c) ==
    IF Len(parts) = 0 THEN <<>>
    ELSE IF Len(parts) = 1 THEN parts[1]
    ELSE parts[1] \o <<c>> \o join(Tail(parts), c)

(***************************************************************************)
(* urllib.parse as crawl.py uses it.  Addresses of the model carry no ';', *)
(* brackets, blanks or control characters, so params splitting, the IPv6   *)
(* checks and the stripping of unsafe characters have nothing to act on.   *)
(***************************************************************************)
\* The operators of this section pass their intermediate values as
\* arguments, one operator per step of the Python code.

\* urlsplit, last step: if '?' in url: url, query = url.split('?', 1)
split_query(scheme, netloc, url, fragment) ==
    LET q == find(url, {"?"}, 1)
    IN  [scheme |-> scheme, netloc |-> netloc,
         path |-> IF q = 0 THEN url ELSE Take(url, q - 1),
         query |-> IF q = 0 THEN <<>> ELSE Drop(url, q),
         fragment |-> fragment]

\* urlsplit: if '#' in url: url, fragment = url.split('#', 1)
split_fragment(scheme, netloc, url) ==
    LET f == find(url, {"#"}, 1)
    IN  IF f = 0 THEN split_query(scheme, netloc, url, <<>>)
        ELSE split_query(scheme, netloc, Take(url, f - 1), Drop(url, f))

\* urlsplit: if url[:2] == '//': netloc, url = _splitnetloc(url, 2)
split_netloc(scheme, url) ==
    LET d == find(url, {"/", "?", "#"}, 3)
    IN  IF Take(url, 2) # <<"/", "/">> THEN split_fragment(scheme, <<>>, url)
        ELSE IF d = 0 THEN split_fragment(scheme, Drop(url, 2), <<>>)
        ELSE split_fragment(scheme, SubSeq(url, 3, d - 1), Drop(url, d - 1))

\* urlsplit's test for a scheme in front of the ':' at position i
has_scheme(url, i) ==
    /\ i > 1
    /\ isalpha(url[1])
    /\ \A j \in 1..(i - 1) : url[j] \in scheme_chars

\* urlparse(url, scheme=default): scheme, netloc, path, query, fragment
urlparse_default(url, default) ==
    LET i == find(url, {":"}, 1)
    IN  IF has_scheme(url, i)
        THEN split_netloc(lower(Take(url, i - 1)), Drop(url, i))
        ELSE split_netloc(default, url)

urlparse(url) == urlparse_default(url, <<>>)

\* normalize_url without the lower-casing
normalize_url_keep_case(url) ==
    rstrip(urlparse(url).netloc \o urlparse(url).path, "/")

\* normalize_url: netloc + path, trailing slashes stripped, lower-cased
normalize_url(url) ==
    lower(rstrip(urlparse(url).netloc \o urlparse(url).path, "/"))

HTTP == <<"h", "t", "t", "p">>
HTTPS == <<"h", "t", "t", "p", "s">>

\* urllib.parse.uses_relative and uses_netloc, as far as the model's alphabet
\* spells their members
uses_relative == {<<>>, HTTP, HTTPS}
uses_netloc == {<<>>, HTTP, HTTPS}

\* urlunsplit, after the netloc was put in front of the path
unsplit_rest(scheme, url, query, fragment) ==
    (IF scheme # <<>> THEN scheme \o <<":">> ELSE <<>>)
    \o url
    \o (IF query # <<>> THEN <<"?">> \o query ELSE <<>>)
    \o (IF fragment # <<>> THEN <<"#">> \o fragment ELSE <<>>)

\* urlunparse((scheme, netloc, path, '', query, fragment))
urlunparse(scheme, netloc, path, query, fragment) ==
    IF \/ netloc # <<>>
       \/ scheme # <<>> /\ scheme \in uses_netloc /\ Take(path, 2) # <<"/", "/">>
    THEN unsplit_rest(scheme,
             <<"/", "/">> \o netloc
                 \o (IF path # <<>> /\ Head(path) # "/" THEN <<"/">> ELSE <<>>) \o path,
             query, fragment)
    ELSE unsplit_rest(scheme, path, query, fragment)

\* the loop of urljoin over the path segments: '..' pops, '.' is skipped
RECURSIVE resolve_segments(_, _)
resolve_segments(segments, resolved_path) ==
    IF segments = <<>> THEN resolved_path
    ELSE IF Head(segments) = <<".", ".">>
    THEN resolve_segments(Tail(segments),
                          Take(resolved_path, Len(resolved_path) - 1))
    ELSE IF Head(segments) = <<".">>
    THEN resolve_segments(Tail(segments), resolved_path)
    ELSE resolve_segments(Tail(segments), Append(resolved_path, Head(segments)))

\* segments[1:-1] = filter(None, segments[1:-1])
filter_inner(segments) ==
    IF Len(segments) < 3 THEN segments
    ELSE <<Head(segments)>>
         \o SelectSeq(SubSeq(segments, 2, Len(segments) - 1), LAMBDA x : x # <<>>)
         \o <<segments[Len(segments)]>>

\* base_parts: the base path's segments without a last one that is no directory
base_parts(split_base) ==
    IF split_base[Len(split_base)] # <<>>
    THEN Take(split_base, Len(split_base) - 1)
    ELSE split_base

\* the segments urljoin resolves
join_segments(bpath, path) ==
    IF Take(path, 1) = <<"/">> THEN split(path, "/")
    ELSE filter_inner(base_parts(split(bpath, "/")) \o split(path, "/"))

\* '/'.join(resolved_path) or '/'
joined_or_root(joined) == IF joined = <<>> THEN <<"/">> ELSE joined

\* the resolved path, with the '' appended after a last '.' or '..'
resolved_path_of(segments) ==
    joined_or_root(join(
        IF segments[Len(segments)] \in {<<".">>, <<".", ".">>}
        THEN Append(resolve_segments(segments, <<>>), <<>>)
        ELSE resolve_segments(segments, <<>>), "/"))

\* urljoin once both addresses are parsed (b the base, r the reference)
urljoin_parsed(url, b, r) ==
    IF r.scheme # b.scheme \/ r.scheme \notin uses_relative THEN url
    ELSE IF r.scheme \in uses_netloc /\ r.netloc # <<>>
    THEN urlunparse(r.scheme, r.netloc, r.path, r.query, r.fragment)
    ELSE IF r.path = <<>>
    THEN urlunparse(r.scheme, b.netloc, b.path,
                    IF r.query = <<>> THEN b.query ELSE r.query, r.fragment)
    ELSE urlunparse(r.scheme, b.netloc, resolved_path_of(join_segments(b.path, r.path)),
                    r.query, r.fragment)

urljoin_base(url, b) == urljoin_parsed(url, b, urlparse_default(url, b.scheme))

\* urllib.parse.urljoin(base, url)
urljoin(base, url) ==
    IF base = <<>> THEN url
    ELSE IF url = <<>> THEN base
    ELSE urljoin_base(url, urlparse(base))

(***************************************************************************)
(* The web a run crawls.  A site gives the seed address and, per address,  *)
(* what the server answers: the status, whether the content type is        *)
(* text/html, and the href attributes of the anchors of the body in        *)
(* document order (the body is modelled by these hrefs alone; h1, first    *)
(* paragraph and images play no part in the traversal).  An address        *)
(* without an answer is a transport failure.                               *)
(***************************************************************************)
MaxPagesBound == 3
MaxConcurrencyBound == 2

U(rest) == HTTP \o <<":", "/", "/">> \o rest

Ok(hrefs) == [status |-> 200, is_html |-> TRUE, hrefs |-> hrefs]
NotFound == [status |-> 404, is_html |-> TRUE, hrefs |-> <<>>]
NotHtml == [status |-> 200, is_html |-> FALSE, hrefs |-> <<>>]

\* links to /a and /a/ (one key), to another host, to a missing page; /a links back
SiteMixed ==
    [base_url |-> U(<<"h">>),
     pages |->
        (U(<<"h">>) :> Ok(<< <<"/", "a">>, <<"/", "a", "/">>,
                             U(<<"o", "/", "c">>), <<"/", "b">> >>))
        @@ (U(<<"h", "/", "a">>) :> Ok(<< U(<<"h">>) >>))
        @@ (U(<<"h", "/", "a", "/">>) :> Ok(<< U(<<"h">>) >>))
        @@ (U(<<"h", "/", "b">>) :> NotFound)
        @@ (U(<<"o", "/", "c">>) :> Ok(<< U(<<"h", "/", "c">>) >>))
        @@ (U(<<"h", "/", "c">>) :> Ok(<<>>))]

\* a relative link on a page below the root
SiteDeep ==
    [base_url |-> U(<<"h">>),
     pages |->
        (U(<<"h">>) :> Ok(<< <<"/", "d", "/", "a">> >>))
        @@ (U(<<"h", "/", "d", "/", "a">>) :> Ok(<< <<"b">> >>))
        @@ (U(<<"h", "/", "d", "/", "b">>) :> Ok(<<>>))
        @@ (U(<<"h", "/", "b">>) :> Ok(<<>>))]

\* a seed with three distinct pages; a self link, a cross link, a non-HTML page
SiteFan ==
    [base_url |-> U(<<"h">>),
     pages |->
        (U(<<"h">>) :> Ok(<< <<"/", "a">>, <<"/", "b">>, <<"/", "c">> >>))
        @@ (U(<<"h", "/", "a">>) :> Ok(<< <<"/", "a">>, <<"/", "b">> >>))
        @@ (U(<<"h", "/", "b">>) :> Ok(<<>>))
        @@ (U(<<"h", "/", "c">>) :> Ok(<< <<"/", "p">> >>))
        @@ (U(<<"h", "/", "p">>) :> NotHtml)]

\* a cycle of two pages, all fetches succeed
SiteCycle ==
    [base_url |-> U(<<"h", "/">>),
     pages |->
        (U(<<"h", "/">>) :> Ok(<< <<"a">>, <<"b">> >>))
        @@ (U(<<"h", "/", "a">>) :> Ok(<< <<"b">> >>))
        @@ (U(<<"h", "/", "b">>) :> Ok(<< <<"a">>, <<"/">> >>))]

Sites == {SiteMixed, SiteDeep, SiteFan, SiteCycle}

(***************************************************************************)
(* AsyncCrawler                                                            *)
(***************************************************************************)
None == "None"

base_url == site.base_url
base_domain == urlparse(base_url).netloc

\* get_html with the status check left out
get_html_any_status(url) ==
    IF url \notin DOMAIN site.pages THEN None
    ELSE IF ~site.pages[url].is_html THEN None
    ELSE site.pages[url].hrefs

\* get_html: the body (its hrefs), or None for a transport failure, a status
\* above 399 or a content type that is not text/html
get_html(url) ==
    IF url \notin DOMAIN site.pages THEN None
    ELSE IF site.pages[url].status > 399 THEN None
    ELSE IF ~site.pages[url].is_html THEN None
    ELSE site.pages[url].hrefs

\* [f(x) for x in xs]
RECURSIVE join_all(_, _)
join_all(base, hrefs) ==
    IF hrefs = <<>> THEN <<>>
    ELSE <<urljoin(base, Head(hrefs))>> \o join_all(base, Tail(hrefs))

\* get_urls_from_html: anchors without href (or with an empty one) are skipped
get_urls_from_html(html, base) ==
    join_all(base, SelectSeq(html, LAMBDA href : href # <<>>))

\* extract_page_data, the fields the traversal and the ledger depend on
extract_page_data(html, page_url) ==
    [url |-> page_url, outgoing_links |-> get_urls_from_html(html, page_url)]

\* a scope check that lets every address through
in_scope_always(current_url) == TRUE

\* crawl_page's scope check: not (netloc != base_domain)
in_scope(current_url) == urlparse(current_url).netloc = base_domain

\* add_page_visit with the limit tested before the ledger lookup
add_page_visit_limit_first(normalized_url) ==
    IF should_stop THEN "stopped"
    ELSE IF Cardinality(DOMAIN page_data) >= max_pages THEN "limit"
    ELSE IF normalized_url \in DOMAIN page_data THEN "visited"
    ELSE "new"

\* add_page_visit that stops one page early
add_page_visit_early_limit(normalized_url) ==
    IF should_stop THEN "stopped"
    ELSE IF normalized_url \in DOMAIN page_data THEN "visited"
    ELSE IF Cardinality(DOMAIN page_data) + 1 >= max_pages THEN "limit"
    ELSE "new"

\* add_page_visit with the limit test off by one
add_page_visit_late_limit(normalized_url) ==
    IF should_stop THEN "stopped"
    ELSE IF normalized_url \in DOMAIN page_data THEN "visited"
    ELSE IF Cardinality(DOMAIN page_data) > max_pages THEN "limit"
    ELSE "new"

\* add_page_visit's decision under the lock; "new" is the True return, the
\* others are the three False returns, and "limit" is the one that sets
\* should_stop and cancels the registered tasks
add_page_visit(normalized_url) ==
    IF should_stop THEN "stopped"
    ELSE IF normalized_url \in DOMAIN page_data THEN "visited"
    ELSE IF Cardinality(DOMAIN page_data) >= max_pages THEN "limit"
    ELSE "new"

\* what crawl_page computes from an address alone: the scope check, the key,
\* the answer of get_html, the page record and the addresses to fan out to
\* (resolved against base_url).  The run computes these once per address, in
\* Init, and the actions look them up in the variable "values".
page_values(url) ==
    [in_scope |-> in_scope(url),
     normalized_url |-> normalize_url(url),
     html |-> get_html(url),
     page_info |-> IF get_html(url) = None THEN None
                   ELSE extract_page_data(get_html(url), url),
     next_urls |-> IF get_html(url) = None THEN <<>>
                   ELSE get_urls_from_html(get_html(url), base_url)]

SeqRange(xs) == {xs[i] : i \in 1..Len(xs)}

\* the addresses a unit of the run can be given: the seed and every address
\* some page fans out to
KnownUrls ==
    {base_url} \cup DOMAIN site.pages
    \cup UNION {SeqRange(get_urls_from_html(get_html(p), base_url)) :
                  p \in {q \in DOMAIN site.pages : get_html(q) # None}}

\* a cancellation loop that misses the tasks waiting for a slot
cancel_all_but_waiting(us) ==
    [v \in DOMAIN us |->
        IF v \in all_tasks /\ us[v].pc \notin {"done", "waiting"}
        THEN [us[v] EXCEPT !.must_cancel = TRUE]
        ELSE us[v]]

\* a cancellation loop over every task of the run, the root call included
cancel_all_with_root(us) ==
    [v \in DOMAIN us |->
        IF us[v].pc # "done" THEN [us[v] EXCEPT !.must_cancel = TRUE] ELSE us[v]]

\* a cancellation loop that cancels nothing
cancel_all_nothing(us) == us

\* for task in all_tasks: if not task.done(): task.cancel()
cancel_all(us) ==
    [v \in DOMAIN us |->
        IF v \in all_tasks /\ us[v].pc # "done"
        THEN [us[v] EXCEPT !.must_cancel = TRUE]
        ELSE us[v]]

\* add_page_visit's write of should_stop: set when the limit is reached
visit_should_stop(is_new) == IF is_new = "limit" THEN TRUE ELSE should_stop

\* add_page_visit's cancellation loop, run when the limit is reached
visit_units(is_new) == IF is_new = "limit" THEN cancel_all(units) ELSE units

\* a semaphore that never blocks
locked_never(value) == FALSE

\* Semaphore.locked(): no slot can be taken
locked(value) == value = 0

\* a release that gives nothing back
release_nothing(value) == value

\* Semaphore.release()
release(value) == value + 1

\* one access to the shared crawl state: which attribute, read or write, by
\* which coroutine, and whether inside "async with self.lock"
Access(field, mode, by, under_lock) ==
    [field |-> field, mode |-> mode, by |-> by, under_lock |-> under_lock]

\* add_page_visit: the whole body is inside "async with self.lock"
add_page_visit_accesses(is_new) ==
    {Access("should_stop", "read", "add_page_visit", TRUE)}
    \cup (IF is_new # "stopped"
          THEN {Access("page_data", "read", "add_page_visit", TRUE)} ELSE {})
    \cup (IF is_new = "limit"
          THEN {Access("should_stop", "write", "add_page_visit", TRUE),
                Access("all_tasks", "read", "add_page_visit", TRUE)}
          ELSE {})

\* crawl_page: "if self.should_stop", outside any "async with"
stop_check_access == {Access("should_stop", "read", "crawl_page", FALSE)}

\* an insertion made without taking the lock
insert_access_unlocked == {Access("page_data", "write", "crawl_page", FALSE)}

\* crawl_page: "async with self.lock: self.page_data[normalized_url] = page_info"
insert_access == {Access("page_data", "write", "crawl_page", TRUE)}

\* crawl_page: self.all_tasks.add(task) and self.all_tasks.discard(task)
register_access == {Access("all_tasks", "write", "crawl_page", FALSE)}

\* crawl: "return self.page_data"
return_access == {Access("page_data", "read", "crawl", FALSE)}

\* a crawl_page invocation as created: the root call or asyncio.create_task;
\* is_new is what add_page_visit answered it ("none" before the call)
NewUnit(url, parent) ==
    [url |-> url, parent |-> parent, pc |-> "ready", must_cancel |-> FALSE,
     outcome |-> "pending", reserved |-> FALSE, is_new |-> "none",
     fetched |-> FALSE, got |-> "nothing"]

\* the invocation ends: it returned, or CancelledError left it
Done(unit, outcome) ==
    [unit EXCEPT !.pc = "done", !.outcome = outcome, !.must_cancel = FALSE]

Children(u) == {v \in 1..Len(units) : units[v].parent = u}

\* a gather that does not wait
gather_done_early(u) == TRUE

\* asyncio.gather(*tasks) completes: every task spawned at this level is done
gather_done(u) == \A v \in Children(u) : units[v].pc = "done"

(***************************************************************************)
(* The run.  asyncio tasks are cooperative: an action is the code one task *)
(* runs between two suspension points (the semaphore wait, the network     *)
(* request, the gather).  The lock is never contended, since no task       *)
(* suspends while holding it, so "async with self.lock" never suspends.    *)
(* task.cancel() makes the task's next step raise CancelledError at the    *)
(* point where it is suspended (or before its first statement).            *)
(***************************************************************************)
Init ==
    /\ site \in Sites
    /\ max_concurrency \in 1..MaxConcurrencyBound
    /\ max_pages \in 1..MaxPagesBound
    /\ session = "none"
    /\ page_data = <<>>
    /\ should_stop = FALSE
    /\ all_tasks = {}
    /\ sem_value = max_concurrency
    /\ units = <<NewUnit(site.base_url, 0)>>
    /\ values = [url \in KnownUrls |-> page_values(url)]
    /\ result = <<>>
    /\ norm_in = <<>>
    /\ norm_out = <<>>
    /\ lock_locked = FALSE
    /\ accessed = {}

\* crawl_site_async enters the context manager: __aenter__
aenter ==
    /\ session = "none"
    /\ session' = "open"
    /\ UNCHANGED <<site, values, max_concurrency, max_pages, page_data, should_stop,
                   all_tasks, sem_value, units, result, norm_in, norm_out, lock_locked>>
    /\ accessed' = {}

\* crawl_page from its first statement to its first suspension: the stop
\* check, the scope check, add_page_visit (whose lock is free, so it does not
\* suspend; a task that add_page_visit cancelled itself ends cancelled when
\* it returns) and the entry into the semaphore
crawl_page_start(u) ==
    /\ session = "open"
    /\ units[u].pc = "ready"
    /\ LET me == units[u]
           normalized_url == values[me.url].normalized_url
           is_new == add_page_visit(normalized_url)
           seen == [me EXCEPT !.reserved = TRUE, !.is_new = is_new]
       IN  IF me.must_cancel
           THEN /\ units' = [units EXCEPT ![u] = Done(me, "cancelled")]
                /\ accessed' = {}
                /\ UNCHANGED <<should_stop, sem_value, lock_locked>>
           ELSE IF should_stop \/ ~values[me.url].in_scope
           THEN /\ units' = [units EXCEPT ![u] = Done(me, "returned")]
                /\ accessed' = stop_check_access
                /\ UNCHANGED <<should_stop, sem_value, lock_locked>>
           ELSE /\ accessed' = stop_check_access \cup add_page_visit_accesses(is_new)
                /\ lock_locked' = FALSE
                /\ should_stop' = visit_should_stop(is_new)
                /\ IF is_new # "new"
                   THEN /\ units' = [visit_units(is_new) EXCEPT ![u] =
                                        Done(seen, IF visit_units(is_new)[u].must_cancel
                                                   THEN "cancelled" ELSE "returned")]
                        /\ UNCHANGED sem_value
                   ELSE IF locked(sem_value)
                   THEN /\ units' = [units EXCEPT ![u] = [seen EXCEPT !.pc = "waiting"]]
                        /\ UNCHANGED sem_value
                   ELSE /\ units' = [units EXCEPT ![u] =
                                        [seen EXCEPT !.pc = "fetching", !.fetched = TRUE]]
                        /\ sem_value' = sem_value - 1
    /\ UNCHANGED <<site, values, max_concurrency, max_pages, session, page_data,
                   all_tasks, result, norm_in, norm_out>>

\* a task waiting in "async with self.semaphore" gets a slot and starts its request
semaphore_acquire(u) ==
    /\ units[u].pc = "waiting"
    /\ ~units[u].must_cancel
    /\ ~locked(sem_value)
    /\ sem_value' = sem_value - 1
    /\ units' = [units EXCEPT ![u] = [@ EXCEPT !.pc = "fetching", !.fetched = TRUE]]
    /\ UNCHANGED <<site, values, max_concurrency, max_pages, session, page_data,
                   should_stop, all_tasks, result, norm_in, norm_out, lock_locked>>
    /\ accessed' = {}

\* CancelledError reaches a task suspended on the semaphore or on its request;
\* leaving "async with self.semaphore" gives the slot back
cancelled_while_suspended(u) ==
    /\ units[u].pc \in {"waiting", "fetching"}
    /\ units[u].must_cancel
    /\ sem_value' = IF units[u].pc = "fetching" THEN release(sem_value) ELSE sem_value
    /\ units' = [units EXCEPT ![u] = Done(@, "cancelled")]
    /\ UNCHANGED <<site, values, max_concurrency, max_pages, session, page_data,
                   should_stop, all_tasks, result, norm_in, norm_out, lock_locked>>
    /\ accessed' = {}

\* the request completes: crawl_page from get_html's return to the gather
\* (or to its return)
crawl_page_fetched(u) ==
    /\ units[u].pc = "fetching"
    /\ ~units[u].must_cancel
    /\ LET me == units[u]
           html == values[me.url].html
           normalized_url == values[me.url].normalized_url
           page_info == values[me.url].page_info
           next_urls == values[me.url].next_urls
           first == Len(units) + 1
           last == Len(units) + Len(next_urls)
       IN  /\ sem_value' = release(sem_value)
           /\ IF html = None
              THEN /\ units' = [units EXCEPT ![u] =
                                   Done([me EXCEPT !.got = "None"], "returned")]
                   /\ accessed' = {}
                   /\ UNCHANGED <<page_data, all_tasks, lock_locked>>
              ELSE /\ page_data' = (normalized_url :> page_info) @@ page_data
                   /\ lock_locked' = FALSE
                   /\ accessed' = insert_access \cup stop_check_access
                                   \cup (IF should_stop \/ next_urls = <<>> THEN {}
                                         ELSE register_access)
                   /\ IF should_stop \/ next_urls = <<>>
                      THEN /\ units' = [units EXCEPT ![u] =
                                           Done([me EXCEPT !.got = "html"], "returned")]
                           /\ UNCHANGED all_tasks
                      ELSE /\ units' =
                                [units EXCEPT ![u] =
                                    [me EXCEPT !.got = "html", !.pc = "awaiting"]]
                                \o [i \in 1..Len(next_urls) |-> NewUnit(next_urls[i], u)]
                           /\ all_tasks' = all_tasks \cup (first..last)
    /\ UNCHANGED <<site, values, max_concurrency, max_pages, session, should_stop,
                   result, norm_in, norm_out>>

\* the gather is over: the finally clause discards the tasks of this level,
\* and crawl_page returns, or ends cancelled if cancel() was called on it
crawl_page_gathered(u) ==
    /\ units[u].pc = "awaiting"
    /\ gather_done(u)
    /\ all_tasks' = all_tasks \ Children(u)
    /\ units' = [units EXCEPT ![u] =
                    Done(@, IF @.must_cancel THEN "cancelled" ELSE "returned")]
    /\ UNCHANGED <<site, values, max_concurrency, max_pages, session, page_data,
                   should_stop, sem_value, result, norm_in, norm_out, lock_locked>>
    /\ accessed' = register_access

\* crawl: the root crawl_page call is over, return self.page_data
crawl_return ==
    /\ session = "open"
    /\ units[1].pc = "done"
    /\ result = <<>>
    /\ result' = <<page_data>>
    /\ UNCHANGED <<site, values, max_concurrency, max_pages, session, page_data,
                   should_stop, all_tasks, sem_value, units, norm_in, norm_out, lock_locked>>
    /\ accessed' = return_access

\* crawl_site_async leaves the context manager: __aexit__ closes the session
aexit ==
    /\ session = "open"
    /\ result # <<>>
    /\ session' = "closed"
    /\ UNCHANGED <<site, values, max_concurrency, max_pages, page_data, should_stop,
                   all_tasks, sem_value, units, result, norm_in, norm_out, lock_locked>>
    /\ accessed' = {}

Next ==
    \/ aenter
    \/ \E u \in 1..Len(units) : crawl_page_start(u)
    \/ \E u \in 1..Len(units) : semaphore_acquire(u)
    \/ \E u \in 1..Len(units) : cancelled_while_suspended(u)
    \/ \E u \in 1..Len(units) : crawl_page_fetched(u)
    \/ \E u \in 1..Len(units) : crawl_page_gathered(u)
    \/ crawl_return
    \/ aexit

Spec == Init /\ [][Next]_vars

\* the event loop runs every task that can run, and every request completes
FairSpec == Spec /\ WF_vars(Next)

(***************************************************************************)
(* normalize_url on its own: an address is drawn, normalized, and the key  *)
(* is normalized once more.                                                *)
(***************************************************************************)
NormMaxLen == 5

NormChars == {"h", "H", "/", ":", "8"}
NormPrefixes == {<<>>, HTTP \o <<":", "/", "/">>, HTTPS \o <<":", "/", "/">>,
                 <<"H", "T", "T", "P", ":", "/", "/">>}
NormBodies == UNION {[1..n -> NormChars] : n \in 0..NormMaxLen}

NormInit ==
    /\ \E prefix \in NormPrefixes, body \in NormBodies : norm_in = prefix \o body
    /\ norm_out = <<>>
    /\ site = SiteDeep
    /\ max_concurrency = 1
    /\ max_pages = 1
    /\ session = "none"
    /\ page_data = <<>>
    /\ should_stop = FALSE
    /\ all_tasks = {}
    /\ sem_value = max_concurrency
    /\ units = <<>>
    /\ values = <<>>
    /\ result = <<>>
    /\ lock_locked = FALSE
    /\ accessed = {}

\* normalize_url(address)
normalize_first ==
    /\ norm_out = <<>>
    /\ norm_out' = <<normalize_url(norm_in)>>
    /\ UNCHANGED <<crawl_vars, norm_in>>

\* normalize_url(normalize_url(address))
normalize_again ==
    /\ Len(norm_out) = 1
    /\ norm_out' = Append(norm_out, normalize_url(norm_out[1]))
    /\ UNCHANGED <<crawl_vars, norm_in>>

NormNext == normalize_first \/ normalize_again

NormSpec == NormInit /\ [][NormNext]_vars

(***************************************************************************)
(* add_page_visit on its own: a crawler in the middle of a run (the root   *)
(* awaiting its gather, three registered child tasks, some pages recorded, *)
(* stopped or not) and the child tasks that have not started yet call      *)
(* add_page_visit, one after the other.                                    *)
(***************************************************************************)
VisitUrls == {U(<<"h">>), U(<<"h", "/", "a">>), U(<<"h", "/", "b">>),
              U(<<"h", "/", "c">>)}
VisitPcs == {"ready", "waiting", "fetching", "done"}

\* a child task of the root, somewhere on its way through crawl_page
VisitUnit(url, pc) ==
    [NewUnit(url, 1) EXCEPT
        !.pc = pc,
        !.outcome = IF pc = "done" THEN "returned" ELSE "pending",
        !.reserved = pc # "ready",
        !.is_new = IF pc = "ready" THEN "none" ELSE "new",
        !.fetched = pc \in {"fetching", "done"},
        !.got = IF pc = "done" THEN "html" ELSE "nothing"]

VisitInit ==
    /\ site = SiteFan
    /\ max_concurrency = 1
    /\ sem_value = 1
    /\ max_pages \in 1..MaxPagesBound
    /\ session = "open"
    /\ values = [url \in KnownUrls |-> page_values(url)]
    /\ \E stored \in SUBSET VisitUrls :
          page_data = [k \in {normalize_url(url) : url \in stored} |->
                          page_values(CHOOSE url \in stored :
                                          normalize_url(url) = k).page_info]
    /\ should_stop \in BOOLEAN
    /\ should_stop => Cardinality(DOMAIN page_data) >= max_pages
    /\ \E url \in VisitUrls, pc2, pc3 \in VisitPcs :
          units = <<[NewUnit(site.base_url, 0) EXCEPT
                        !.pc = "awaiting", !.reserved = TRUE, !.is_new = "new",
                        !.fetched = TRUE, !.got = "html"],
                    VisitUnit(url, "ready"),
                    VisitUnit(U(<<"h", "/", "b">>), pc2),
                    VisitUnit(U(<<"h", "/", "c">>), pc3)>>
    /\ all_tasks = {2, 3, 4}
    /\ result = <<>>
    /\ norm_in = <<>>
    /\ norm_out = <<>>
    /\ lock_locked = FALSE
    /\ accessed = {}

\* is_new = await self.add_page_visit(normalized_url), whatever should_stop is
add_page_visit_call(u) ==
    /\ units[u].pc = "ready"
    /\ units[u].is_new = "none"
    /\ ~units[u].must_cancel
    /\ LET is_new == add_page_visit(values[units[u].url].normalized_url)
       IN  /\ should_stop' = visit_should_stop(is_new)
           /\ units' = [visit_units(is_new) EXCEPT
                           ![u].reserved = TRUE, ![u].is_new = is_new]
           /\ accessed' = add_page_visit_accesses(is_new)
    /\ lock_locked' = FALSE
    /\ UNCHANGED <<site, values, max_concurrency, max_pages, session, page_data,
                   all_tasks, sem_value, result, norm_in, norm_out>>

VisitNext == \E u \in 1..Len(units) : add_page_visit_call(u)

VisitSpec == VisitInit /\ [][VisitNext]_vars

(***************************************************************************)
(* Properties                                                              *)
(***************************************************************************)
UnitIds == 1..Len(units)
Fetching == {u \in UnitIds : units[u].pc = "fetching"}
RootReturned == units[1].pc = "done"

\* C1: in every reachable state the result mapping holds at most max_pages entries
C1_SizeWithinLimit == Cardinality(DOMAIN page_data) <= max_pages

\* C2: for every normalized address at most one unit ever passes the
\* reservation and starts a fetch of it
C2_NoUrlFetchedTwice ==
    \A u, v \in UnitIds :
        (u # v /\ units[u].fetched /\ units[v].fetched)
            => normalize_url(units[u].url) # normalize_url(units[v].url)

\* C3: at no instant are more than max_concurrency units inside the
\* semaphore-guarded section of crawl_page
C3_ConcurrencyBound == Cardinality(Fetching) <= max_concurrency

\* every slot is taken while another admitted unit waits for one
C3_Witness ==
    /\ max_concurrency > 1
    /\ Cardinality(Fetching) = max_concurrency
    /\ \E u \in UnitIds : units[u].pc = "waiting"

\* C4: every run terminates: the root crawl_page call eventually returns
C4_Terminates == <>RootReturned

\* the root returned on the cyclic site with a single slot, after its
\* descendants ran
C4_Witness ==
    /\ RootReturned
    /\ site = SiteCycle
    /\ max_concurrency = 1
    /\ Cardinality({u \in UnitIds : units[u].fetched}) > 2

\* the host of an address is the seed's host (compared as the netloc strings)
SameHost(url) == urlparse(url).netloc = urlparse(site.base_url).netloc

\* C5: a unit whose address is not on the seed's host never reserves, never
\* takes a slot, never fetches and never spawns; every record of the result
\* mapping is that of a page fetched from the seed's host
C5_OutOfDomainPruned ==
    /\ \A u \in UnitIds :
          ~SameHost(units[u].url) =>
              /\ units[u].pc \in {"ready", "done"}
              /\ ~units[u].reserved
              /\ ~units[u].fetched
              /\ Children(u) = {}
    /\ \A k \in DOMAIN page_data :
          /\ SameHost(page_data[k].url)
          /\ normalize_url(page_data[k].url) = k
          /\ \E u \in UnitIds : units[u].fetched /\ units[u].url = page_data[k].url

\* the run is over and a unit for an address of another host ended without a fetch
C5_Witness ==
    /\ result # <<>>
    /\ \E u \in UnitIds : ~SameHost(units[u].url) /\ units[u].pc = "done"

\* the seed's fetch succeeds and its page links to a page of the seed's host
\* other than itself
SeedLinksInDomain ==
    /\ get_html(site.base_url) # None
    /\ \E i \in 1..Len(get_html(site.base_url)) :
          LET link == urljoin(site.base_url, get_html(site.base_url)[i])
          IN  SameHost(link) /\ normalize_url(link) # normalize_url(site.base_url)

\* C6: with max_pages = 1 and a seed page linking to in-domain pages, no
\* linked page is ever fetched or recorded and the returned mapping has
\* exactly one entry, keyed by the seed's normalized address
C6_OnePageLimit ==
    (max_pages = 1 /\ SeedLinksInDomain) =>
        /\ \A u \in UnitIds : units[u].fetched => u = 1
        /\ DOMAIN page_data \subseteq {normalize_url(site.base_url)}
        /\ result # <<>> => DOMAIN result[1] = {normalize_url(site.base_url)}

\* a run with max_pages = 1 returned after the seed spawned three units and
\* the limit stopped the crawl
C6_Witness ==
    /\ max_pages = 1
    /\ SeedLinksInDomain
    /\ result # <<>>
    /\ should_stop
    /\ Cardinality(Children(1)) >= 3

\* the server's answer for the address is unusable: no answer, a status of
\* 400 or more, or a content type that is not HTML
Unusable(url) ==
    \/ url \notin DOMAIN site.pages
    \/ site.pages[url].status >= 400
    \/ ~site.pages[url].is_html

Siblings(u) == {v \in UnitIds : v # u /\ units[v].parent = units[u].parent}

\* C7: a unit whose fetch is unusable adds no record and spawns no children;
\* when the run ends without the stop flag set, every sibling on the seed's
\* host whose page is usable has its key in the returned mapping
C7_UnusableSkipped ==
    /\ \A u \in UnitIds :
          (units[u].fetched /\ Unusable(units[u].url)) =>
              /\ Children(u) = {}
              /\ units[u].pc \in {"fetching", "done"}
              /\ \A k \in DOMAIN page_data : page_data[k].url # units[u].url
    /\ (result # <<>> /\ ~should_stop) =>
          \A u \in UnitIds :
              (units[u].fetched /\ Unusable(units[u].url)) =>
                  \A v \in Siblings(u) :
                      (SameHost(units[v].url) /\ ~Unusable(units[v].url))
                          => normalize_url(units[v].url) \in DOMAIN result[1]

\* a run ended without the stop flag; a unit's fetch was unusable and a
\* sibling of it fetched its page
C7_Witness ==
    /\ result # <<>>
    /\ ~should_stop
    /\ \E u \in UnitIds :
          /\ units[u].pc = "done" /\ units[u].got = "None"
          /\ \E v \in Siblings(u) : units[v].got = "html"

\* the addresses reachable from the seed through the outgoing links of the
\* page records (resolved against the page they are on), following only pages
\* of the seed's host
RecordLinks(url) ==
    IF get_html(url) = None THEN {}
    ELSE LET links == extract_page_data(get_html(url), url).outgoing_links
         IN  {links[i] : i \in 1..Len(links)}

RECURSIVE ReachableFrom(_)
ReachableFrom(S) ==
    LET T == S \cup UNION {RecordLinks(p) : p \in {q \in S : SameHost(q)}}
    IN  IF T = S THEN S ELSE ReachableFrom(T)

ReachableKeys ==
    {normalize_url(p) : p \in {q \in ReachableFrom({site.base_url}) : SameHost(q)}}

\* C8: if at most max_pages in-domain keys are reachable and every fetch
\* succeeds, then when the root call returns the mapping's keys are exactly
\* the reachable in-domain keys, and the stop flag is not set
C8_CompleteUnderLimit ==
    (/\ RootReturned
     /\ Cardinality(ReachableKeys) <= max_pages
     /\ \A u \in UnitIds : units[u].got # "None")
        => (DOMAIN page_data = ReachableKeys /\ ~should_stop)

\* C9: when the root crawl_page call has returned (and so when the session
\* is closed) every unit spawned in the run has completed
C9_ReturnsAtQuiescence ==
    (RootReturned \/ result # <<>> \/ session = "closed")
        => \A u \in UnitIds : units[u].pc = "done"

\* the session is closed after a run in which the stop condition cancelled a
\* unit that had started its fetch
C9_Witness ==
    /\ session = "closed"
    /\ should_stop
    /\ \E u \in UnitIds : units[u].outcome = "cancelled" /\ units[u].fetched
    /\ \E u \in UnitIds : units[u].outcome = "cancelled" /\ Children(u) # {}

\* the address starts with prefix
StartsWith(url, prefix) == Take(url, Len(prefix)) = prefix

SchemePrefixes == NormPrefixes \ {<<>>}

\* str.upper() on the letters of the model
ToUpper(c) ==
    CASE c = "a" -> "A"
      [] c = "h" -> "H"
      [] c = "p" -> "P"
      [] c = "t" -> "T"
      [] OTHER -> c

upper(s) == [i \in 1..Len(s) |-> ToUpper(s[i])]

\* the address with its host part (up to the first '/' after "scheme://")
\* rewritten by f, for an address that starts with prefix
WithHost(url, prefix, f(_)) ==
    LET rest == Drop(url, Len(prefix))
        slash == find(rest, {"/"}, 1)
        host == IF slash = 0 THEN rest ELSE Take(rest, slash - 1)
    IN  prefix \o f(host) \o Drop(rest, Len(host))

\* normalize ignores the scheme, the letter case of the host and one more
\* trailing slash, and the key of "scheme://rest" is rest, lower-cased and
\* without trailing slashes
NormalizeEquivalences ==
    Len(norm_out) >= 1 =>
        /\ \A p, q \in SchemePrefixes :
              StartsWith(norm_in, p) =>
                  /\ normalize_url(q \o Drop(norm_in, Len(p))) = norm_out[1]
                  /\ normalize_url(WithHost(norm_in, p, upper)) = norm_out[1]
                  /\ normalize_url(WithHost(norm_in, p, lower)) = norm_out[1]
                  /\ norm_out[1] = lower(rstrip(Drop(norm_in, Len(p)), "/"))
        /\ normalize_url(norm_in \o <<"/">>) = norm_out[1]

\* the address has a host part, and no ':' in it (no port, no userinfo)
PlainHost(url) ==
    /\ urlparse(url).netloc # <<>>
    /\ ":" \notin SeqRange(urlparse(url).netloc)

\* C10 as stated: the equivalences, and normalize(normalize(A)) = normalize(A)
\* for every address A
C10_IdempotentEverywhere ==
    /\ NormalizeEquivalences
    /\ Len(norm_out) = 2 => norm_out[2] = norm_out[1]

\* C10 as amended: the equivalences, and normalize(normalize(A)) = normalize(A)
\* for every address A whose host part is not empty and holds no ':'
C10_Normalize ==
    /\ NormalizeEquivalences
    /\ (Len(norm_out) = 2 /\ PlainHost(norm_in)) => norm_out[2] = norm_out[1]

\* an address with an upper-case host and a trailing slash was normalized twice
C10_Witness ==
    /\ Len(norm_out) = 2
    /\ PlainHost(norm_in)
    /\ norm_in = HTTPS \o <<":", "/", "/", "H", "/", "h", "/">>
    /\ norm_out[1] = <<"h", "/", "h">>

\* the page behind a unit's address is usable and its key is not in the ledger
Unstored(u) ==
    /\ values[units[u].url].html # None
    /\ values[units[u].url].normalized_url \notin DOMAIN page_data

\* C11: no step that ends with the stop flag set adds an entry to page_data or
\* changes one: every insertion happens while should_stop is false, and a
\* unit that was past its reservation when the stop fired stores nothing
C11_NoInsertAfterStop == [][should_stop' => page_data' = page_data]_vars

\* the stop fired while an admitted unit was fetching a usable page: the unit
\* ended cancelled and its key is not in the ledger
C11_Witness ==
    /\ should_stop
    /\ \E u \in UnitIds :
          /\ units[u].is_new = "new"
          /\ units[u].fetched
          /\ units[u].outcome = "cancelled"
          /\ Unstored(u)

\* C12: once page_data maps a key to a record, no step removes the key or
\* stores another record under it
C12_RecordsNeverChange ==
    [][\A k \in DOMAIN page_data :
          k \in DOMAIN page_data' /\ page_data'[k] = page_data[k]]_vars

\* the step is a call of add_page_visit by unit u
Called(u) == units[u].is_new = "none" /\ units'[u].is_new # "none"

\* the step requests no cancellation and leaves the stop flag as it was
NoStateChange ==
    /\ should_stop' = should_stop
    /\ \A v \in UnitIds : units'[v].must_cancel = units[v].must_cancel

\* C13: add_page_visit rejects when stopped, else rejects when the key is in
\* the mapping (the stop flag stays false, whatever the size), else, when
\* the size has reached max_pages, sets the stop flag, requests cancellation
\* of exactly the registered units that are not done, and rejects; else it
\* admits.  It changes the flag and requests cancellation in the third case
\* only, and it never touches the mapping or the registered set.
C13_ReservationOrder ==
    [][\A u \in UnitIds :
          Called(u) =>
            LET k == values[units[u].url].normalized_url
                admitted == units'[u].is_new = "new"
            IN  /\ page_data' = page_data
                /\ all_tasks' = all_tasks
                /\ IF should_stop
                   THEN ~admitted /\ NoStateChange
                   ELSE IF k \in DOMAIN page_data
                   THEN ~admitted /\ NoStateChange
                   ELSE IF Cardinality(DOMAIN page_data) >= max_pages
                   THEN /\ ~admitted
                        /\ should_stop'
                        /\ \A v \in UnitIds :
                              units'[v].must_cancel =
                                  (v \in all_tasks /\ units[v].pc # "done")
                   ELSE admitted /\ NoStateChange]_vars

\* with the mapping full, one unit asked for a recorded key and was rejected
\* with the flag left false, then another asked for a new key: the flag is
\* set, the registered unit that was fetching is cancelled, the root is not
C13_Witness ==
    /\ Cardinality(DOMAIN page_data) >= max_pages
    /\ \E u, v, w \in UnitIds :
          /\ units[u].is_new = "visited"
          /\ units[v].is_new = "limit"
          /\ units[w].pc = "fetching" /\ units[w].must_cancel
    /\ should_stop
    /\ ~units[1].must_cancel
    /\ units[1].pc = "awaiting"

\* C14: in no step that starts with the stop flag set is a unit spawned or a
\* fetch started: the units stay the same in number, and a unit that had not
\* started its fetch has not started it after the step
C14_NoFanOutAfterStop ==
    [][should_stop =>
          /\ Len(units') = Len(units)
          /\ \A u \in UnitIds : units'[u].fetched = units[u].fetched]_vars

\* after the stop, one unit that was in its fetch and one that was waiting
\* for a slot have both ended, with no child of theirs and no fetch by the
\* second
C14_Witness ==
    /\ should_stop
    /\ \E u, v \in UnitIds :
          /\ units[u].fetched /\ units[u].outcome = "cancelled"
          /\ values[units[u].url].next_urls # <<>>
          /\ Children(u) = {}
          /\ units[v].is_new = "new" /\ ~units[v].fetched
          /\ units[v].pc = "done"

\* C15: the slots taken are exactly those of the units inside the guarded
\* section (between the semaphore's entry and its exit): a unit that has
\* spawned children and awaits them, or that has ended in any way, holds none
C15_SlotOnlyAcrossFetch ==
    /\ sem_value >= 0
    /\ max_concurrency - sem_value = Cardinality(Fetching)

\* with a single slot, a unit awaits its children while one of them holds the
\* slot and another one has left the guarded section on an unusable fetch
C15_Witness ==
    /\ max_concurrency = 1
    /\ \E p, c, x \in UnitIds :
          /\ units[p].pc = "awaiting"
          /\ c \in Children(p) /\ units[c].pc = "fetching"
          /\ units[x].got = "None" /\ units[x].pc = "done"

\* the accesses of the last step made by a traversal unit (crawl_page and the
\* add_page_visit it calls)
UnitAccesses == {a \in accessed : a.by # "crawl"}

\* crawl_page's own test of the stop flag, or its update of the registered set
OutsideLock(a) ==
    \/ a.by = "crawl_page" /\ a.field = "should_stop" /\ a.mode = "read"
    \/ a.by = "crawl_page" /\ a.field = "all_tasks" /\ a.mode = "write"

Spawned == UnitIds \ {1}

\* C17 as stated: all_tasks is exactly the set of spawned units that have not
\* completed
C17_ExactlyActive == all_tasks = {u \in Spawned : units[u].pc # "done"}

\* C17: all_tasks is exactly the set of spawned units whose parent has not
\* left its gather; every spawned unit that has not completed is among them,
\* and the root call never is
C17_RegisteredUntilParentEnds ==
    /\ all_tasks = {u \in Spawned : units[units[u].parent].pc = "awaiting"}
    /\ \A u \in Spawned : units[u].pc # "done" => u \in all_tasks

\* a unit has completed and is still registered, while a sibling of it is
\* in its fetch
C17_Witness ==
    \E u, v \in all_tasks :
        /\ units[u].pc = "done"
        /\ units[v].parent = units[u].parent
        /\ units[v].pc = "fetching"

C19_StopMonotonicJustified ==
    /\ [](should_stop => Cardinality(DOMAIN page_data) >= max_pages)
    /\ [][/\ should_stop => should_stop'
          /\ (~should_stop /\ should_stop') =>
                \E u \in UnitIds :
                    /\ Called(u)
                    /\ values[units[u].url].normalized_url \notin DOMAIN page_data
                    /\ Cardinality(DOMAIN page_data) >= max_pages]_vars

\* the run is over with the flag still set, the ledger holding max_pages
\* entries and the unit that set the flag rejected
C19_Witness ==
    /\ should_stop
    /\ session = "closed"
    /\ max_pages > 1
    /\ Cardinality(DOMAIN page_data) = max_pages
    /\ \E u \in UnitIds : units[u].is_new = "limit"

\* C20: when the root crawl_page call has returned, no task is registered,
\* every slot of the semaphore is free and the lock is not held
C20_NoLeaksAtEnd ==
    RootReturned =>
        /\ all_tasks = {}
        /\ sem_value = max_concurrency
        /\ ~lock_locked

\* the root returned after a stop that cancelled one unit waiting for a
\* slot, one in its fetch and one awaiting its children
C20_Witness ==
    /\ RootReturned
    /\ should_stop
    /\ \E u, v, w \in Spawned :
          /\ units[u].outcome = "cancelled" /\ units[u].is_new = "new"
          /\ ~units[u].fetched
          /\ units[v].outcome = "cancelled" /\ units[v].fetched
          /\ units[v].got = "nothing"
          /\ units[w].outcome = "cancelled" /\ units[w].got = "html"

====
